---- MODULE Spec2Model ----
(***************************************************************************)
(* Model of the local RAG assistant: the DocumentProcessor, the            *)
(* knowledge-base build pipeline, the VectorDatabase handler, the          *)
(* command-line loop (main.py) and the chat page (app.py).                 *)
(*                                                                         *)
(* Strings are sequences of one-character strings, so that strip,          *)
(* endswith and the comparison of a lowered line with the exit words are   *)
(* computed character by character as Python does.                         *)
(***************************************************************************)
EXTENDS Integers, Sequences, FiniteSets, TLC

VARIABLES dataDir, chroma, vdb, last, cli, ui

vars == <<dataDir, chroma, vdb, last, cli, ui>>

(***************************************************************************)
(* Bounds of the model.                                                    *)
(***************************************************************************)
\* chunk_size / chunk_overlap handed to DocumentProcessor (scaled down)
ChunkSize == 4
ChunkOverlap == 2
\* length of the vectors the embedding model returns (scaled down)
EmbeddingDim == 2
\* number of records add_documents may grow a store to
MaxRecords == 4
\* number of questions one front-end session passes to the agent
MaxTurns == 2
\* number of agent constructions one page session makes
MaxBuilds == 2
\* number of letters in the texts handed to the splitter
MaxLetters == 5

(***************************************************************************)
(* Python string helpers.                                                  *)
(***************************************************************************)
Drop(s, n) == SubSeq(s, n + 1, Len(s))

Take(s, n) == SubSeq(s, 1, n)

\* str.startswith
StartsWith(s, p) == Len(p) <= Len(s) /\ Take(s, Len(p)) = p

\* str.endswith with one suffix
EndsWith(s, p) == Len(p) <= Len(s) /\ Drop(s, Len(s) - Len(p)) = p

\* the characters str.strip removes: U+0009 to U+000D, U+001C to U+001F,
\* U+0020, U+0085, U+00A0 and U+1680 (the Unicode spaces from U+2000 on
\* cannot be written as a string here and are outside the model's alphabet)
Whitespace ==
    { "\t", "\n", "", "\f", "\r", "", "", "", "", " ", "", " ", " " }

IsSpace(c) == c \in Whitespace

RECURSIVE lstrip(_)
lstrip(s) == IF s # <<>> /\ IsSpace(Head(s)) THEN lstrip(Tail(s)) ELSE s

RECURSIVE rstrip(_)
rstrip(s) ==
    IF s # <<>> /\ IsSpace(s[Len(s)]) THEN rstrip(Take(s, Len(s) - 1)) ELSE s

\* str.strip
strip(s) == rstrip(lstrip(s))

RECURSIVE Concat(_)
Concat(ss) == IF ss = <<>> THEN <<>> ELSE Head(ss) \o Concat(Tail(ss))

RECURSIVE FilterNonEmpty(_)
FilterNonEmpty(ss) ==
    IF ss = <<>> THEN <<>>
    ELSE IF Head(ss) = <<>> THEN FilterNonEmpty(Tail(ss))
    ELSE <<Head(ss)>> \o FilterNonEmpty(Tail(ss))

(***************************************************************************)
(* DocumentProcessor: loading.                                             *)
(* A path is described by whether it exists, whether it is a directory,    *)
(* whether the directory holds a sub-directory, and the list of the files  *)
(* under it in os.walk order; a file has a name, the texts its loader      *)
(* yields (one per PDF page, one for a text file) and whether its loader   *)
(* succeeds.                                                               *)
(***************************************************************************)
PdfSuffix == <<".", "p", "d", "f">>

TextSuffixes ==
    { <<".", "t", "x", "t">>, <<".", "m", "d">>, <<".", "p", "y">>,
      <<".", "R">>, <<".", "s", "h">> }

IsPdf(name) == EndsWith(name, PdfSuffix)

UpperTextSuffixes ==
    { <<".", "T", "X", "T">>, <<".", "M", "D">>, <<".", "P", "Y">>,
      <<".", "r">>, <<".", "S", "H">> }

IsTextAnyCase(name) ==
    \E sfx \in TextSuffixes \cup UpperTextSuffixes : EndsWith(name, sfx)

IsText(name) == \E sfx \in TextSuffixes : EndsWith(name, sfx)

\* loader.load() of one file: the documents it contributes
LoadFile(f) ==
    IF (IsPdf(f.name) \/ IsText(f.name)) /\ f.ok
    THEN [i \in 1..Len(f.pages) |-> [page_content |-> f.pages[i], source |-> f.name]]
    ELSE <<>>

RECURSIVE LoadFilesAbortOnError(_)
LoadFilesAbortOnError(files) ==
    IF files = <<>> THEN <<>>
    ELSE IF ~((IsPdf(Head(files).name) \/ IsText(Head(files).name)) /\ Head(files).ok)
    THEN <<>>
    ELSE LoadFile(Head(files)) \o LoadFilesAbortOnError(Tail(files))

RECURSIVE LoadFiles(_)
LoadFiles(files) ==
    IF files = <<>> THEN <<>> ELSE LoadFile(Head(files)) \o LoadFiles(Tail(files))

load_documents_from_directory(dir) ==
    IF ~dir.isdir THEN <<>> ELSE LoadFiles(dir.files)

(***************************************************************************)
(* DocumentProcessor: splitting (RecursiveCharacterTextSplitter with its   *)
(* default separators, keep_separator and strip_whitespace left on).       *)
(***************************************************************************)
Separators == << <<"\n", "\n">>, <<"\n">>, <<" ">>, <<>> >>

RECURSIVE Contains(_, _)
Contains(text, sep) ==
    IF Len(text) < Len(sep) THEN FALSE
    ELSE StartsWith(text, sep) \/ Contains(Tail(text), sep)

\* re.split with the separator kept at the head of the piece that follows it
RECURSIVE SplitKeep(_, _, _, _)
SplitKeep(text, sep, cur, out) ==
    IF text = <<>> THEN Append(out, cur)
    ELSE IF StartsWith(text, sep)
    THEN SplitKeep(Drop(text, Len(sep)), sep, sep, Append(out, cur))
    ELSE SplitKeep(Tail(text), sep, Append(cur, Head(text)), out)

\* _split_text_with_regex
split_text_with_regex(text, sep) ==
    IF sep = <<>> THEN [i \in 1..Len(text) |-> <<text[i]>>]
    ELSE FilterNonEmpty(SplitKeep(text, sep, <<>>, <<>>))

\* _join_docs with the empty separator: the joined text stripped, <<>> for None
join_docs(docs) == strip(Concat(docs))

AppendDoc(docs, doc) == IF doc = <<>> THEN docs ELSE Append(docs, doc)

\* the while loop of _merge_splits that drops pieces from the head of the
\* current window
RECURSIVE PopWindowKeepAll(_, _, _, _, _)
PopWindowKeepAll(cur, total, dlen, size, overlap) ==
    IF total + dlen > size /\ total > 0
    THEN PopWindowKeepAll(Tail(cur), total - Len(Head(cur)), dlen, size, overlap)
    ELSE [cur |-> cur, total |-> total]

RECURSIVE PopWindow(_, _, _, _, _)
PopWindow(cur, total, dlen, size, overlap) ==
    IF total > overlap \/ (total + dlen > size /\ total > 0)
    THEN PopWindow(Tail(cur), total - Len(Head(cur)), dlen, size, overlap)
    ELSE [cur |-> cur, total |-> total]

\* _merge_splits with the empty separator
RECURSIVE merge_splits(_, _, _, _, _, _)
merge_splits(splits, size, overlap, docs, cur, total) ==
    IF splits = <<>> THEN AppendDoc(docs, join_docs(cur))
    ELSE LET d == Head(splits)
             flush == total + Len(d) > size /\ Len(cur) > 0
             docs1 == IF flush THEN AppendDoc(docs, join_docs(cur)) ELSE docs
             w == IF flush THEN PopWindow(cur, total, Len(d), size, overlap)
                  ELSE [cur |-> cur, total |-> total]
         IN  merge_splits(Tail(splits), size, overlap, docs1,
                          Append(w.cur, d), w.total + Len(d))

\* index of the separator _split_text picks: the first one found in the text
RECURSIVE PickSeparator(_, _, _)
PickSeparator(text, seps, i) ==
    IF i >= Len(seps) THEN Len(seps)
    ELSE IF seps[i] = <<>> \/ Contains(text, seps[i]) THEN i
    ELSE PickSeparator(text, seps, i + 1)

\* _split_text
RECURSIVE split_text(_, _, _, _)
RECURSIVE SplitPieces(_, _, _, _, _, _)
SplitPieces(pieces, newSeps, size, overlap, good, final) ==
    IF pieces = <<>>
    THEN IF good = <<>> THEN final
         ELSE final \o merge_splits(good, size, overlap, <<>>, <<>>, 0)
    ELSE LET s == Head(pieces) IN
         IF Len(s) < size
         THEN SplitPieces(Tail(pieces), newSeps, size, overlap, Append(good, s), final)
         ELSE LET final1 == IF good = <<>> THEN final
                            ELSE final \o merge_splits(good, size, overlap, <<>>, <<>>, 0)
                  final2 == IF newSeps = <<>> THEN Append(final1, s)
                            ELSE final1 \o split_text(s, newSeps, size, overlap)
              IN  SplitPieces(Tail(pieces), newSeps, size, overlap, <<>>, final2)

split_text(text, seps, size, overlap) ==
    LET i == PickSeparator(text, seps, 1)
        sep == seps[i]
        newSeps == IF sep = <<>> THEN <<>> ELSE Drop(seps, i)
    IN  SplitPieces(split_text_with_regex(text, sep), newSeps, size, overlap, <<>>, <<>>)

ChunksOf(doc, size, overlap) ==
    LET texts == split_text(doc.page_content, Separators, size, overlap)
    IN  [i \in 1..Len(texts) |-> [page_content |-> texts[i], source |-> doc.source]]

RECURSIVE SplitAll(_, _, _)
SplitAll(documents, size, overlap) ==
    IF documents = <<>> THEN <<>>
    ELSE ChunksOf(Head(documents), size, overlap) \o SplitAll(Tail(documents), size, overlap)

split_documents(documents, size, overlap) ==
    IF documents = <<>> THEN <<>> ELSE SplitAll(documents, size, overlap)

(***************************************************************************)
(* Embedding model and the vector store library.                           *)
(***************************************************************************)
RECURSIVE CountChar(_, _)
CountChar(s, c) ==
    IF s = <<>> THEN 0
    ELSE (IF Head(s) = c THEN 1 ELSE 0) + CountChar(Tail(s), c)

\* the model named in config.py and a model of another vector length
ConfiguredModel == "nomic-embed-text"

EmbeddingModels == { ConfiguredModel, "other-model" }

\* length of the vectors a model returns
ModelDim(model) == IF model = ConfiguredModel THEN EmbeddingDim ELSE EmbeddingDim + 1

\* embed_query / embed_documents of the model when the call succeeds: a
\* vector of the model's dimension, a function of the model and the text
Embed(model, text) ==
    [i \in 1..ModelDim(model) |-> (Len(text) * i + CountChar(text, "a")) % 5]

\* the embedding call Chroma makes through embeddings_model: it raises when
\* the model service fails (ok = FALSE), otherwise one vector per text
ChromaEmbed(model, texts, up) ==
    [ok |-> up,
     vectors |-> IF up THEN [i \in 1..Len(texts) |-> Embed(model, texts[i])] ELSE <<>>]

\* the check Chroma makes when vectors are added to or compared with a
\* collection: the first record fixes the collection's dimension, and a
\* vector of another length raises InvalidDimensionException
DimensionsMatch(records, vectors) ==
    records = <<>> \/
        \A i \in 1..Len(vectors) : Len(vectors[i]) = Len(records[1].embedding)

\* EmbeddingHandler.create_embedding: [] on any failure
create_embedding_value(model, text, up) == IF up THEN Embed(model, text) ELSE <<>>

\* EmbeddingHandler.create_embeddings: one [] per text on any failure
create_embeddings_value(model, texts, up) ==
    [i \in 1..Len(texts) |-> IF up THEN Embed(model, texts[i]) ELSE <<>>]

RecordsOf(docs, vectors) ==
    [i \in 1..Len(docs) |->
        [text |-> docs[i].page_content, source |-> docs[i].source,
         embedding |-> vectors[i]]]

RECURSIVE SqDist(_, _)
SqDist(u, v) ==
    IF u = <<>> \/ v = <<>> THEN 0
    ELSE (Head(u) - Head(v)) * (Head(u) - Head(v)) + SqDist(Tail(u), Tail(v))

\* position of the record nearest to qv, the earliest one on a tie
Nearest(records, qv) ==
    CHOOSE i \in 1..Len(records) :
        \A j \in 1..Len(records) :
            \/ SqDist(records[i].embedding, qv) < SqDist(records[j].embedding, qv)
            \/ /\ SqDist(records[i].embedding, qv) = SqDist(records[j].embedding, qv)
               /\ i <= j

Without(s, i) == Take(s, i - 1) \o Drop(s, i)

\* the k nearest records, nearest first
RECURSIVE TopK(_, _, _)
TopK(records, qv, k) ==
    IF k = 0 \/ records = <<>> THEN <<>>
    ELSE LET i == Nearest(records, qv)
         IN  <<records[i]>> \o TopK(Without(records, i), qv, k - 1)

DocsOfRecords(records) ==
    [i \in 1..Len(records) |->
        [page_content |-> records[i].text, source |-> records[i].source]]

(***************************************************************************)
(* The persisted store at CHROMA_DB_PATH: whether the directory exists,    *)
(* whether it holds the database files (os.listdir is non-empty), and the  *)
(* records in them.                                                        *)
(***************************************************************************)
NoStore == [exists |-> FALSE, files |-> FALSE, records |-> <<>>]

EmptyDir == [exists |-> TRUE, files |-> FALSE, records |-> <<>>]

\* os.path.exists(path) and os.listdir(path)
KbPresent(store) == store.exists /\ store.files

\* shutil.rmtree guarded by os.path.exists
rmtree_skipped(store) == store

rmtree(store) == NoStore

\* os.makedirs(path, exist_ok=True)
makedirs(store) == IF store.exists THEN store ELSE EmptyDir

\* Chroma(persist_directory=...): the client creates the directory and the
\* database files when they are missing and opens them otherwise
OpenClient(store) == [exists |-> TRUE, files |-> TRUE, records |-> store.records]

\* collection.add of the embedded documents
AddRecords(store, recs) == [OpenClient(store) EXCEPT !.records = @ \o recs]

(***************************************************************************)
(* Inputs: source directories, documents handed to the handler, queries.   *)
(***************************************************************************)
TextDna == <<"d", "n", "a", " ", "r", "n", "a">>
TextPcr == <<"p", "c", "r">>
TextSeq == <<"s", "e", "q">>

FileNotes == [name |-> <<"n", ".", "t", "x", "t">>, pages |-> <<TextDna>>, ok |-> TRUE]
FilePaper == [name |-> <<"p", ".", "p", "d", "f">>, pages |-> <<TextPcr, TextSeq>>, ok |-> TRUE]
FileBroken == [name |-> <<"b", ".", "p", "d", "f">>, pages |-> <<TextPcr>>, ok |-> FALSE]
FileBlank == [name |-> <<"e", ".", "m", "d">>, pages |-> << <<>> >>, ok |-> TRUE]
FileImage == [name |-> <<"i", ".", "p", "n", "g">>, pages |-> <<TextSeq>>, ok |-> TRUE]
FileUpper == [name |-> <<"u", ".", "T", "X", "T">>, pages |-> <<TextPcr>>, ok |-> TRUE]

\* the file the build script writes into an empty data directory
DummyFile ==
    [name |-> <<"d", ".", "t", "x", "t">>, pages |-> << <<"d", "u", "m">> >>, ok |-> TRUE]

MissingDir == [exists |-> FALSE, isdir |-> FALSE, subdirs |-> FALSE, files |-> <<>>]

\* a directory that holds these files and no sub-directory
DirOf(files) == [exists |-> TRUE, isdir |-> TRUE, subdirs |-> FALSE, files |-> files]

\* the path is a regular file
NotADir == [exists |-> TRUE, isdir |-> FALSE, subdirs |-> FALSE, files |-> <<>>]

\* a directory whose only entry is an empty sub-directory
OnlySubdir == [exists |-> TRUE, isdir |-> TRUE, subdirs |-> TRUE, files |-> <<>>]

DataDirs ==
    { MissingDir,
      NotADir,
      OnlySubdir,
      DirOf(<<>>),
      DirOf(<<FileImage, FileUpper>>),
      DirOf(<<FileBroken>>),
      DirOf(<<FileBlank>>),
      DirOf(<<FileImage, FileNotes, FileBroken>>),
      DirOf(<<FilePaper>>) }

\* the directories the loader is run on
DocDirs ==
    DataDirs \cup
    { DirOf(<<FileBroken, FilePaper, FileUpper, FileNotes>>),
      DirOf(<<FileNotes, FileImage, FileBlank, FileBroken, DummyFile>>),
      DirOf(<<FileUpper, FileImage, FilePaper>>) }

\* the texts handed to the splitter: the first n letters of the alphabet, each
\* two neighbours joined directly or by a space, with or without a trailing
\* space; the empty text, a blank one, and texts with paragraph and line
\* breaks and with a tab, which is whitespace but no separator
Alphabet == <<"a", "b", "c", "d", "e", "f", "g", "h", "i">>

Gaps == { <<>>, <<" ">> }

RECURSIVE LetterTexts(_, _)
LetterTexts(i, n) ==
    IF i >= n THEN { <<Alphabet[i]>> }
    ELSE { <<Alphabet[i]>> \o g \o rest : g \in Gaps, rest \in LetterTexts(i + 1, n) }

BreakTexts ==
    { <<"a", "b", "\n", "\n", "c", "d">>,
      <<"a", "\n", "b", "c", " ", "d">>,
      <<"a", "b", "c", "\n", "d", "e">>,
      <<"a", "b", "c", "\t", "d", "e">> }

SplitTexts ==
    { <<>>, <<" ">> } \cup BreakTexts \cup
    UNION { UNION { {t, t \o <<" ">>} : t \in LetterTexts(1, n) } : n \in 1..MaxLetters }

SourceOne == <<"1", ".", "t", "x", "t">>
SourceTwo == <<"2", ".", "m", "d">>

PairTexts == { <<"a", "b">>, <<"a", "b", "c">>, <<" ">>, Take(Alphabet, MaxLetters) }

SplitInputs ==
    { <<>> } \cup
    { << [page_content |-> t, source |-> SourceOne] >> : t \in SplitTexts } \cup
    { << [page_content |-> t, source |-> SourceOne],
         [page_content |-> u, source |-> SourceTwo] >> : t, u \in PairTexts }

NewDoc == [page_content |-> <<"r", "n", "a">>, source |-> <<"x", ".", "t", "x", "t">>]

DocLists == { <<>>, <<NewDoc>> }

Queries == { <<"d", "n", "a">>, <<"p", "c", "r", "?">> }

SearchKs == {1, 2}

Texts(docs) == [i \in 1..Len(docs) |-> docs[i].page_content]

(***************************************************************************)
(* State.                                                                  *)
(*   dataDir  the source directory DATA_PATH                               *)
(*   chroma   the persisted store at CHROMA_DB_PATH                        *)
(*   vdb      a VectorDatabase handler: model is its embeddings_model;     *)
(*            db is "None", "current" (a client on the database files now  *)
(*            at the path) or "orphan" (a client on files that were        *)
(*            deleted under it, whose records it still holds)              *)
(*   last     the most recent call: operation, argument, outcome, value    *)
(*            returned, and the persisted store, the handler's db and the  *)
(*            records it read before the call                              *)
(*   cli, ui  the command-line process and the chat page                   *)
(***************************************************************************)
NewHandler(model) == [db |-> "None", orphan |-> <<>>, model |-> model]

\* the records a handler's client reads
View(h) ==
    IF h.db = "current" THEN chroma.records
    ELSE IF h.db = "orphan" THEN h.orphan
    ELSE <<>>

Report(op, arg, outcome, result) ==
    [op |-> op, arg |-> arg, outcome |-> outcome, result |-> result, before |-> chroma,
     db |-> vdb.db, view |-> View(vdb)]

\* a client keeps the files it has open when the directory is deleted
Orphaned(h) ==
    IF h.db = "current" THEN [h EXCEPT !.db = "orphan", !.orphan = chroma.records]
    ELSE h

\* Chroma.from_documents followed by persist(): the store and whether the
\* call returned. The client opens the collection persisted at the path,
\* embeds the documents with the handler's model and adds them.
FromDocuments(store, docs, model, clientUp, embedUp) ==
    IF ~clientUp THEN [ok |-> FALSE, store |-> store]
    ELSE LET e == ChromaEmbed(model, Texts(docs), embedUp) IN
         IF ~e.ok \/ ~DimensionsMatch(store.records, e.vectors)
         THEN [ok |-> FALSE, store |-> OpenClient(store)]
         ELSE [ok |-> TRUE, store |-> AddRecords(store, RecordsOf(docs, e.vectors))]

(***************************************************************************)
(* build_knowledge_base.                                                   *)
(***************************************************************************)
\* the body of build_knowledge_base run on source directory dir: the store
\* it leaves, how it ended, the chunks it produced and whether it deleted an
\* existing store
BuildResult(dir, store, clientUp, embedUp) ==
    LET documents == load_documents_from_directory(dir)
        chunks == split_documents(documents, ChunkSize, ChunkOverlap)
    IN  IF documents = <<>>
        THEN [store |-> store, outcome |-> "no_documents", chunks |-> <<>>,
              deleted |-> FALSE]
        ELSE IF chunks = <<>>
        THEN [store |-> store, outcome |-> "no_chunks", chunks |-> <<>>,
              deleted |-> FALSE]
        ELSE LET fresh == makedirs(IF store.exists THEN rmtree(store) ELSE store)
                 r == FromDocuments(fresh, chunks, ConfiguredModel, clientUp, embedUp)
             IN  [store |-> r.store,
                  outcome |-> IF r.ok THEN "built" ELSE "raised",
                  chunks |-> chunks,
                  deleted |-> store.exists]

\* the script run as a program (python -m ...build_knowledge_base): it creates
\* a missing data directory, writes a dummy file into one that os.listdir
\* finds empty, builds, and removes the dummy file again; os.listdir raises
\* when the path is not a directory. Reported as a call of op.
ScriptRun(op) ==
    IF dataDir.exists /\ ~dataDir.isdir
    THEN /\ last' = Report(op, <<>>, "raised", <<>>)
         /\ UNCHANGED <<dataDir, chroma, vdb, cli, ui>>
    ELSE \E clientUp, embedUp \in BOOLEAN :
            LET made == IF dataDir.exists THEN dataDir ELSE DirOf(<<>>)
                used == IF made.files = <<>> /\ ~made.subdirs
                        THEN [made EXCEPT !.files = <<DummyFile>>]
                        ELSE made
                b == BuildResult(used, chroma, clientUp, embedUp)
            IN  /\ dataDir' = made
                /\ chroma' = b.store
                /\ vdb' = IF b.deleted THEN Orphaned(vdb) ELSE vdb
                /\ last' = Report(op, <<>>, b.outcome, b.chunks)
                /\ UNCHANGED <<cli, ui>>

\* a call of build_knowledge_base()
build_knowledge_base ==
    \E clientUp, embedUp \in BOOLEAN :
        LET b == BuildResult(dataDir, chroma, clientUp, embedUp) IN
        /\ chroma' = b.store
        /\ vdb' = IF b.deleted THEN Orphaned(vdb) ELSE vdb
        /\ last' = Report("build_knowledge_base", <<>>, b.outcome, b.chunks)
        /\ UNCHANGED <<dataDir, cli, ui>>

build_main == ScriptRun("build_main")

(***************************************************************************)
(* VectorDatabase.                                                         *)
(***************************************************************************)
\* VectorDatabase(embeddings_model, persist_directory): the handler keeps
\* the model it is given; the scripts of the repository pass the configured
\* one
VectorDatabase_init ==
    /\ \E model \in EmbeddingModels : vdb' = NewHandler(model)
    /\ last' = Report("VectorDatabase", <<>>, "returned", <<>>)
    /\ UNCHANGED <<dataDir, chroma, cli, ui>>

\* the body of initialize_db(documents) with documents embedded by model,
\* reported as a call of op
InitializeDbWith(op, documents, model) ==
    IF documents # <<>>
    THEN /\ Len(chroma.records) + Len(documents) <= MaxRecords
         /\ \E clientUp, embedUp \in BOOLEAN :
               LET r == FromDocuments(chroma, documents, model, clientUp, embedUp) IN
               /\ chroma' = r.store
               /\ vdb' = IF r.ok THEN [vdb EXCEPT !.db = "current", !.orphan = <<>>]
                         ELSE vdb
               /\ last' = Report(op, documents,
                                 IF r.ok THEN "returned" ELSE "raised", <<>>)
    ELSE IF KbPresent(chroma)
    THEN \E clientUp \in BOOLEAN :
            /\ vdb' = IF clientUp THEN [vdb EXCEPT !.db = "current", !.orphan = <<>>]
                      ELSE vdb
            /\ last' = Report(op, documents,
                              IF clientUp THEN "returned" ELSE "raised", <<>>)
            /\ UNCHANGED chroma
    ELSE /\ vdb' = [vdb EXCEPT !.db = "None", !.orphan = <<>>]
         /\ last' = Report(op, documents, "returned", <<>>)
         /\ UNCHANGED chroma

\* an initialize_db that embeds with the configured model whatever model the
\* handler was given
InitializeDbConfiguredModel(op, documents) ==
    InitializeDbWith(op, documents, ConfiguredModel)

\* initialize_db(documents): embedding=self.embeddings_model
InitializeDb(op, documents) == InitializeDbWith(op, documents, vdb.model)

initialize_db ==
    \E documents \in DocLists :
        /\ InitializeDb("initialize_db", documents)
        /\ UNCHANGED <<dataDir, cli, ui>>

add_documents ==
    \E documents \in DocLists :
        /\ IF documents = <<>>
           THEN /\ last' = Report("add_documents", documents, "returned", <<>>)
                /\ UNCHANGED <<chroma, vdb>>
           ELSE IF vdb.db = "None"
           THEN InitializeDb("add_documents", documents)
           ELSE /\ Len(View(vdb)) + Len(documents) <= MaxRecords
                /\ \E embedUp \in BOOLEAN :
                      LET e == ChromaEmbed(vdb.model, Texts(documents), embedUp)
                          recs == RecordsOf(documents, e.vectors)
                          ok == e.ok /\ DimensionsMatch(View(vdb), e.vectors)
                      IN  /\ chroma' = IF ok /\ vdb.db = "current"
                                       THEN AddRecords(chroma, recs) ELSE chroma
                          /\ vdb' = IF ok /\ vdb.db = "orphan"
                                    THEN [vdb EXCEPT !.orphan = @ \o recs] ELSE vdb
                          /\ last' = Report("add_documents", documents,
                                            IF ok THEN "returned" ELSE "raised", <<>>)
        /\ UNCHANGED <<dataDir, cli, ui>>

\* self.db.similarity_search(query, k): the query is embedded with the
\* handler's model and compared with the records; a failing service and a
\* query vector of another length than the collection's both raise
SearchResult(h, records, query, k, up) ==
    LET qv == Embed(h.model, query) IN
    IF up /\ DimensionsMatch(records, <<qv>>)
    THEN [outcome |-> "returned", docs |-> DocsOfRecords(TopK(records, qv, k))]
    ELSE [outcome |-> "raised", docs |-> <<>>]

\* a similarity_search(query, k) call that leaves the persisted store as after
SearchCall(after) ==
    \E query \in Queries, k \in SearchKs :
        /\ IF vdb.db = "None"
           THEN last' = Report("similarity_search", query, "returned", <<>>)
           ELSE \E up \in BOOLEAN :
                   LET r == SearchResult(vdb, View(vdb), query, k, up)
                   IN  last' = Report("similarity_search", query, r.outcome, r.docs)
        /\ chroma' = after
        /\ UNCHANGED <<dataDir, vdb, cli, ui>>

similarity_search_resetting == SearchCall(OpenClient(NoStore))

\* a similarity_search that queries self.db without looking at it first
similarity_search_unguarded ==
    \E query \in Queries, k \in SearchKs, up \in BOOLEAN :
        /\ last' = IF vdb.db # "None"
                   THEN LET r == SearchResult(vdb, View(vdb), query, k, up)
                        IN  Report("similarity_search", query, r.outcome, r.docs)
                   ELSE Report("similarity_search", query, "raised", <<>>)
        /\ UNCHANGED <<dataDir, chroma, vdb, cli, ui>>

similarity_search == SearchCall(chroma)

\* the script block of vector_database.py (python vector_database.py): it
\* deletes the store at CHROMA_DB_PATH, creates one from the chunks of two
\* test articles, adds one more document, loads the store in a second
\* handler, searches it and deletes it again. Nothing is caught: stage is the
\* step at which a service fails and the script ends, "done" when none does.
\* The articles and the splitter's sizes (100 and 20) are scaled down.
TestArticles ==
    DirOf(<< [name |-> <<"1", ".", "t", "x", "t">>,
              pages |-> << <<"d", "n", "a", " ", "p", "c", "r">> >>, ok |-> TRUE],
             [name |-> <<"2", ".", "t", "x", "t">>,
              pages |-> << <<"s", "e", "q">> >>, ok |-> TRUE] >>)

TestNewDocument == [page_content |-> <<"r", "n", "a">>, source |-> <<"3", ".", "t", "x", "t">>]

ScriptStages == {"client", "embed", "add", "search", "done"}

\* chunks_for_db of the script
TestChunks ==
    split_documents(load_documents_from_directory(TestArticles), ChunkSize, ChunkOverlap)

vector_database_main ==
    \E stage \in ScriptStages :
        LET fresh == makedirs(IF chroma.exists THEN rmtree(chroma) ELSE chroma)
            chunks == TestChunks
            created == FromDocuments(fresh, chunks, ConfiguredModel, stage # "client",
                                     stage # "embed")
            e == ChromaEmbed(ConfiguredModel, Texts(<<TestNewDocument>>), stage # "add")
            added == IF created.ok /\ e.ok
                     THEN AddRecords(created.store, RecordsOf(<<TestNewDocument>>, e.vectors))
                     ELSE created.store
        IN  /\ chroma' = IF stage = "done" THEN rmtree(added) ELSE added
            /\ vdb' = IF chroma.exists THEN Orphaned(vdb) ELSE vdb
            /\ last' = Report("vector_database_main", <<>>,
                              IF stage = "done" THEN "returned" ELSE "raised", chunks)
            /\ UNCHANGED <<dataDir, cli, ui>>

(***************************************************************************)
(* EmbeddingHandler and LLMHandler.                                        *)
(***************************************************************************)
\* the text the generation model returns for a prompt
Completion(prompt) == <<"A", ":">> \o prompt

LlmErrorText == <<"An error occurred while generating the response.">>

create_embedding ==
    \E model \in EmbeddingModels, text \in Queries, up \in BOOLEAN :
        /\ last' = Report("create_embedding", text, "returned",
                          create_embedding_value(model, text, up))
        /\ UNCHANGED <<dataDir, chroma, vdb, cli, ui>>

create_embeddings ==
    \E model \in EmbeddingModels, up \in BOOLEAN :
        LET texts == <<TextPcr, TextSeq>> IN
        /\ last' = Report("create_embeddings", texts, "returned",
                          create_embeddings_value(model, texts, up))
        /\ UNCHANGED <<dataDir, chroma, vdb, cli, ui>>

\* LLMHandler.generate_response: the fixed string on any failure
generate_response_value(prompt, up) == IF up THEN Completion(prompt) ELSE LlmErrorText

generate_response ==
    \E prompt \in Queries, up \in BOOLEAN :
        /\ last' = Report("generate_response", prompt, "returned",
                          generate_response_value(prompt, up))
        /\ UNCHANGED <<dataDir, chroma, vdb, cli, ui>>

(***************************************************************************)
(* BioRAGAgent (src/agents/bio_rag_agent.py), as the design describes it.  *)
(***************************************************************************)
\* the outcomes of BioRAGAgent()
AgentInitOutcomes == {"ok", "ValueError", "Exception"}

\* what can happen while a question is answered: nothing, the retrieval
\* fails, the generation fails, the call is interrupted, or an Exception is
\* raised around it
AllUp == [retrievalUp |-> TRUE, llmUp |-> TRUE, interrupted |-> FALSE, failed |-> FALSE]

TurnConds ==
    { AllUp,
      [AllUp EXCEPT !.retrievalUp = FALSE],
      [AllUp EXCEPT !.llmUp = FALSE],
      [AllUp EXCEPT !.interrupted = TRUE],
      [AllUp EXCEPT !.failed = TRUE] }

AgentErrorText == <<"An error occurred while answering the question.">>

\* query_agent: retrieval, then generation; a failure of either becomes a
\* fixed string
query_agent(question, retrievalUp, llmUp) ==
    IF ~retrievalUp THEN AgentErrorText ELSE generate_response_value(question, llmUp)

(***************************************************************************)
(* main.py: the command-line process.                                      *)
(*   pc         "start", "init", "loop" or "exited"                        *)
(*   checked    result of ensure_knowledge_base_exists                     *)
(*   init       outcome of BioRAGAgent()                                   *)
(*   hint       whether the remediation hint was printed                   *)
(*   agent      whether the name agent is bound                            *)
(*   queries    number of query_agent calls so far                         *)
(*   turn       the last turn of the loop: what input() did, the line it   *)
(*              returned, the query_agent calls of the turn, what was      *)
(*              printed                                                    *)
(***************************************************************************)
NoTurn == [event |-> "none", line |-> <<>>, called |-> 0, printed |-> <<>>]

CliStart ==
    [pc |-> "start", exit_code |-> 0, checked |-> "none", init |-> "none",
     hint |-> FALSE, agent |-> FALSE, queries |-> 0, turn |-> NoTurn]

CliInputs ==
    { <<"e", "x", "i", "t">>,
      <<" ", "E", "x", "I", "T", "\n">>,
      <<"q", "u", "i", "t">>,
      <<"\r", "Q", "U", "i", "t", "\f">>,
      <<>>,
      <<" ", "\t">>,
      <<"e", "x", "i", "t", "s">>,
      <<"e", "x", " ", "i", "t">>,
      <<" ", "d", "n", "a", "?">> }

Sentinels == { <<"e", "x", "i", "t">>, <<"q", "u", "i", "t">> }

IsSentinelCaseSensitive(question) == question \in Sentinels

\* the capital of each letter of the exit words
Capital(l) ==
    CASE l = "e" -> "E"
      [] l = "x" -> "X"
      [] l = "i" -> "I"
      [] l = "t" -> "T"
      [] l = "q" -> "Q"
      [] l = "u" -> "U"

\* str.lower turns the character c into exactly the letter l of an exit
\* word.  For each of the letters e, x, i, t, q, u the characters that
\* str.lower maps to that single letter are the letter and its ASCII
\* capital.  One other character has a lowered form that contains such a
\* letter, U+0130, whose lowered form is "i" followed by U+0307: two
\* characters, the second of which is in no exit word.
LowersTo(c, l) == c = l \/ c = Capital(l)

\* question.lower() in ["exit", "quit"].  str.lower never shortens a string
\* and lowers it character by character (the one rule that looks at the
\* neighbours, the final sigma, yields a sigma, which is in no exit word), so
\* the lowered line is an exit word exactly when the line has the length of
\* the word and each of its characters lowers to the letter at its place.
IsSentinel(question) ==
    \E s \in Sentinels :
        /\ Len(question) = Len(s)
        /\ \A i \in 1..Len(s) : LowersTo(question[i], s[i])

\* ensure_knowledge_base_exists() and the exit that follows a failure
CliAfterCheckExistsOnly(c, store) ==
    IF ~store.exists
    THEN [c EXCEPT !.pc = "exited", !.exit_code = 1, !.checked = "missing"]
    ELSE [c EXCEPT !.pc = "init", !.checked = "ok"]

CliAfterCheck(c, store) ==
    IF ~KbPresent(store)
    THEN [c EXCEPT !.pc = "exited", !.exit_code = 1, !.checked = "missing"]
    ELSE [c EXCEPT !.pc = "init", !.checked = "ok"]

cli_ensure_knowledge_base_exists ==
    /\ cli.pc = "start"
    /\ cli' = CliAfterCheck(cli, chroma)
    /\ UNCHANGED <<dataDir, chroma, vdb, last, ui>>

\* the try block around BioRAGAgent()
CliAfterInitFallThrough(c, outcome) ==
    CASE outcome = "ok" -> [c EXCEPT !.pc = "loop", !.init = outcome, !.agent = TRUE]
      [] outcome = "ValueError" ->
            [c EXCEPT !.pc = "exited", !.exit_code = 1, !.init = outcome, !.hint = TRUE]
      [] OTHER -> [c EXCEPT !.pc = "loop", !.init = outcome]

CliAfterInit(c, outcome) ==
    CASE outcome = "ok" -> [c EXCEPT !.pc = "loop", !.init = outcome, !.agent = TRUE]
      [] outcome = "ValueError" ->
            [c EXCEPT !.pc = "exited", !.exit_code = 1, !.init = outcome, !.hint = TRUE]
      [] OTHER -> [c EXCEPT !.pc = "exited", !.exit_code = 1, !.init = outcome]

cli_init_agent ==
    /\ cli.pc = "init"
    /\ \E outcome \in AgentInitOutcomes : cli' = CliAfterInit(cli, outcome)
    /\ UNCHANGED <<dataDir, chroma, vdb, last, ui>>

\* what lines 57-65 do with a question: interrupted is a KeyboardInterrupt
\* during the call, failed an Exception raised at line 57 or 58
CliAsk(c, line, retrievalUp, llmUp, interrupted, failed) ==
    IF interrupted
    THEN [c EXCEPT !.pc = "exited", !.exit_code = 0, !.queries = @ + 1,
                   !.turn = [event |-> "line_interrupted", line |-> line, called |-> 1,
                             printed |-> <<"goodbye">>]]
    ELSE IF failed
    THEN [c EXCEPT !.queries = @ + 1,
                   !.turn = [event |-> "line_error", line |-> line, called |-> 1,
                             printed |-> <<"error">>]]
    ELSE [c EXCEPT !.queries = @ + 1,
                   !.turn = [event |-> "line", line |-> line, called |-> 1,
                             printed |-> query_agent(strip(line), retrievalUp, llmUp)]]

CliAfterLineNoEmptyCheck(c, line, retrievalUp, llmUp, interrupted, failed) ==
    IF IsSentinel(strip(line))
    THEN [c EXCEPT !.pc = "exited", !.exit_code = 0,
                   !.turn = [event |-> "line", line |-> line, called |-> 0,
                             printed |-> <<"goodbye">>]]
    ELSE CliAsk(c, line, retrievalUp, llmUp, interrupted, failed)

\* one pass of the while loop in which input() returned line
CliAfterLine(c, line, retrievalUp, llmUp, interrupted, failed) ==
    LET question == strip(line) IN
    IF IsSentinel(question)
    THEN [c EXCEPT !.pc = "exited", !.exit_code = 0,
                   !.turn = [event |-> "line", line |-> line, called |-> 0,
                             printed |-> <<"goodbye">>]]
    ELSE IF question = <<>>
    THEN [c EXCEPT !.turn = [event |-> "line", line |-> line, called |-> 0,
                             printed |-> <<"please enter a question">>]]
    ELSE CliAsk(c, line, retrievalUp, llmUp, interrupted, failed)

cli_turn ==
    /\ cli.pc = "loop"
    /\ \/ \E line \in CliInputs :
             \E t \in (IF IsSentinel(strip(line)) \/ strip(line) = <<>>
                       THEN {AllUp} ELSE TurnConds) :
                /\ IsSentinel(strip(line)) \/ strip(line) = <<>> \/ cli.queries < MaxTurns
                /\ cli' = CliAfterLine(cli, line, t.retrievalUp, t.llmUp,
                                       t.interrupted, t.failed)
       \/ \* input() raises an Exception such as EOFError: reported, loop again
          cli' = [cli EXCEPT !.turn = [event |-> "input_error", line |-> <<>>,
                                      called |-> 0, printed |-> <<"error">>]]
       \/ \* KeyboardInterrupt at the prompt
          cli' = [cli EXCEPT !.pc = "exited", !.exit_code = 0,
                             !.turn = [event |-> "interrupt", line |-> <<>>,
                                       called |-> 0, printed |-> <<"goodbye">>]]
    /\ UNCHANGED <<dataDir, chroma, vdb, last, ui>>

(***************************************************************************)
(* app.py: the chat page.  One action is one run of the script, from its   *)
(* first line to the point where it ends.                                  *)
(*   agent      whether st.cache_resource holds an agent                   *)
(*   built      number of successful BioRAGAgent() constructions           *)
(*   served     the constructions (numbered by built) that were asked a    *)
(*              question                                                   *)
(*   asked      the questions passed to query_agent so far, in order       *)
(*   messages   st.session_state.messages                                  *)
(*   run        how the last run ended: "completed", "stopped_kb" and      *)
(*              "stopped_init" (st.stop at lines 26 and 44), "interrupted" *)
(*              (a stop or rerun request honoured at an st.* call) or      *)
(*              "raised" (an exception left the script)                    *)
(*   init       what BioRAGAgent() did in the last run, "none" when the    *)
(*              run did not call it                                        *)
(*   hint       whether the last run showed a remediation message          *)
(***************************************************************************)
UiStart ==
    [agent |-> FALSE, built |-> 0, served |-> {}, asked |-> <<>>, messages |-> <<>>,
     run |-> "none", init |-> "none", hint |-> FALSE]

UiPrompts == { <<"d", "n", "a", "?">>, <<"p", "c", "r">> }

\* Streamlit ends a run whose session has a stop or rerun request pending
\* (the user pressed Stop, submitted again, reloaded) at the next st.* call
\* the script makes, by an exception that `except Exception` does not catch.
\* The st.* calls of the script, grouped by the state the run leaves when it
\* ends there:
\*   "page"        lines 48-61, before initialize_agent()
\*   "kb_error"    line 21, the store is missing or empty
\*   "info"        line 34, before BioRAGAgent()
\*   "success"     line 37, after BioRAGAgent() returned
\*   "init_error"  lines 40-41, after BioRAGAgent() raised
\*   "input"       lines 73-80, before the question is appended
\*   "spinner"     line 84, after the question is appended
\*   "answer"      lines 89-90, after query_agent returned
\*   "sidebar"     lines 94-95, after the answer is appended
\* "none" is a run that no request ends.
UiStopPoints ==
    { "page", "kb_error", "info", "success", "init_error", "input", "spinner",
      "answer", "sidebar" }

\* number of questions in the transcript
UserTurns(messages) ==
    Cardinality({ i \in 1..Len(messages) : messages[i].role = "user" })

\* the chat part of the script (lines 67-95), run with the agent u.agent
\* holds; prompt <<>> is no submission. The question is appended at line 82,
\* the answer at line 92; query_agent (line 86) is called in between, outside
\* any try, so an exception it raises (failed) leaves the script.
UiChat(u, stopAt, prompt, retrievalUp, llmUp, failed) ==
    LET ended == IF stopAt = "sidebar" THEN "interrupted" ELSE "completed"
        question == [role |-> "user", content |-> prompt]
        asking == [u EXCEPT !.served = @ \cup {u.built},
                            !.asked = Append(@, prompt),
                            !.messages = Append(@, question)]
    IN  IF stopAt = "input" THEN [u EXCEPT !.run = "interrupted"]
        ELSE IF prompt = <<>> THEN [u EXCEPT !.run = ended]
        ELSE IF stopAt = "spinner"
        THEN [u EXCEPT !.run = "interrupted", !.messages = Append(@, question)]
        ELSE IF failed THEN [asking EXCEPT !.run = "raised"]
        ELSE IF stopAt = "answer" THEN [asking EXCEPT !.run = "interrupted"]
        ELSE [asking EXCEPT !.run = ended,
                            !.messages = Append(@,
                                [role |-> "assistant",
                                 content |-> query_agent(prompt, retrievalUp, llmUp)])]

\* one run of the script: the page head, initialize_agent() under
\* st.cache_resource, then the chat part. initialize_agent's body runs only
\* when nothing is cached, and its value is cached only when it returns: a
\* run that ends at st.success (line 37) drops the agent it has just built.
UiAfterRun(u, store, outcome, stopAt, prompt, retrievalUp, llmUp, failed) ==
    LET v == [u EXCEPT !.run = "interrupted", !.init = "none", !.hint = FALSE] IN
    IF stopAt = "page" THEN v
    ELSE IF u.agent
    THEN UiChat([v EXCEPT !.run = "completed"], stopAt, prompt, retrievalUp, llmUp, failed)
    ELSE IF ~KbPresent(store)
    THEN IF stopAt = "kb_error" THEN v
         ELSE [v EXCEPT !.run = "stopped_kb", !.hint = TRUE]
    ELSE IF stopAt = "info" THEN v
    ELSE IF outcome # "ok"
    THEN IF stopAt = "init_error" THEN [v EXCEPT !.init = outcome]
         ELSE [v EXCEPT !.run = "stopped_init", !.init = outcome, !.hint = TRUE]
    ELSE IF stopAt = "success" THEN [v EXCEPT !.init = "ok", !.built = @ + 1]
    ELSE UiChat([v EXCEPT !.run = "completed", !.init = "ok", !.agent = TRUE,
                          !.built = @ + 1],
                stopAt, prompt, retrievalUp, llmUp, failed)

\* the st.* calls a run with these inputs reaches
UiReached(u, store, outcome, prompt) ==
    {"page"} \cup
    (IF u.agent \/ (KbPresent(store) /\ outcome = "ok")
     THEN {"input", "sidebar"} \cup
          (IF prompt # <<>> THEN {"spinner", "answer"} ELSE {})
     ELSE {}) \cup
    (IF u.agent THEN {}
     ELSE IF ~KbPresent(store) THEN {"kb_error"}
     ELSE {"info"} \cup (IF outcome = "ok" THEN {"success"} ELSE {"init_error"}))

\* a page load, a submission or a widget event runs the script
ui_run ==
    /\ \E prompt \in UiPrompts \cup {<<>>},
           outcome \in (IF ui.agent \/ ~KbPresent(chroma) THEN {"ok"}
                        ELSE AgentInitOutcomes) :
          \E stopAt \in UiReached(ui, chroma, outcome, prompt) \cup {"none"} :
             \E t \in (IF prompt # <<>> /\ stopAt \in {"none", "sidebar"}
                       THEN { c \in TurnConds : ~c.interrupted }
                       ELSE {AllUp}) :
                /\ prompt = <<>> \/ UserTurns(ui.messages) < MaxTurns
                /\ (~ui.agent /\ KbPresent(chroma) /\ outcome = "ok")
                      => ui.built < MaxBuilds
                /\ ui' = UiAfterRun(ui, chroma, outcome, stopAt, prompt, t.retrievalUp,
                                    t.llmUp, t.failed)
    /\ UNCHANGED <<dataDir, chroma, vdb, last, cli>>

(***************************************************************************)
(* DocumentProcessor calls: the loader run on the source directory and the *)
(* splitter run on a list of documents.                                    *)
(***************************************************************************)
LoadDocuments ==
    /\ last' = Report("load_documents_from_directory", <<>>, "returned",
                      load_documents_from_directory(dataDir))
    /\ UNCHANGED <<dataDir, chroma, vdb, cli, ui>>

SplitDocuments ==
    \E documents \in SplitInputs :
        /\ last' = Report("split_documents", documents, "returned",
                          split_documents(documents, ChunkSize, ChunkOverlap))
        /\ UNCHANGED <<dataDir, chroma, vdb, cli, ui>>

(***************************************************************************)
(* The knowledge-base specification: builds and handler calls.             *)
(***************************************************************************)
Init ==
    /\ dataDir \in DataDirs
    /\ chroma = NoStore
    /\ vdb = NewHandler(ConfiguredModel)
    /\ last = [op |-> "none", arg |-> <<>>, outcome |-> "returned", result |-> <<>>,
               before |-> NoStore, db |-> "None", view |-> <<>>]
    /\ cli = CliStart
    /\ ui = UiStart

Next ==
    \/ build_knowledge_base
    \/ build_main
    \/ VectorDatabase_init
    \/ initialize_db
    \/ add_documents
    \/ similarity_search
    \/ vector_database_main

Spec == Init /\ [][Next]_vars

(***************************************************************************)
(* The component specification: DocumentProcessor, EmbeddingHandler and    *)
(* LLMHandler, each on its own; none of them touches the store.            *)
(***************************************************************************)
InitDocs ==
    /\ dataDir \in DocDirs
    /\ chroma = NoStore
    /\ vdb = NewHandler(ConfiguredModel)
    /\ last = [op |-> "none", arg |-> <<>>, outcome |-> "returned", result |-> <<>>,
               before |-> NoStore, db |-> "None", view |-> <<>>]
    /\ cli = CliStart
    /\ ui = UiStart

NextDocs ==
    \/ LoadDocuments
    \/ SplitDocuments
    \/ create_embedding
    \/ create_embeddings
    \/ generate_response

SpecDocs == InitDocs /\ [][NextDocs]_vars

(***************************************************************************)
(* The front-end specification: the command-line process and the chat page *)
(* over a persisted store that no other process changes while they run.    *)
(***************************************************************************)
NotesDir == DirOf(<<FileNotes>>)

BuiltStore == BuildResult(NotesDir, NoStore, TRUE, TRUE).store

FrontStores == { NoStore, EmptyDir, OpenClient(NoStore), BuiltStore }

InitFront ==
    /\ dataDir = NotesDir
    /\ chroma \in FrontStores
    /\ vdb = NewHandler(ConfiguredModel)
    /\ last = [op |-> "none", arg |-> <<>>, outcome |-> "returned", result |-> <<>>,
               before |-> NoStore, db |-> "None", view |-> <<>>]
    /\ cli = CliStart
    /\ ui = UiStart

\* The two front ends are separate processes that share only the store,
\* which neither of them writes, so no step of one changes what the other
\* can do, and each property below is a conjunction of statements about one
\* of them. Their steps are therefore not interleaved: the command-line
\* session, when there is one, is over before the page is first loaded.
NextFront ==
    \/ ui = UiStart /\ cli_ensure_knowledge_base_exists
    \/ ui = UiStart /\ cli_init_agent
    \/ ui = UiStart /\ cli_turn
    \/ cli.pc \in {"start", "exited"} /\ ui_run

SpecFront == InitFront /\ [][NextFront]_vars

(***************************************************************************)
(* Properties.                                                             *)
(***************************************************************************)
IsBuild == last.op \in {"build_knowledge_base", "build_main"}

\* C1: a build that reaches the write step leaves in the persisted store
\* exactly the chunks of that build (none when the write raised), whatever
\* the store held before: no record of an earlier build or of an earlier
\* add_documents survives.
C1_DestructiveRebuild ==
    (IsBuild /\ last.outcome \in {"built", "raised"} /\ last.result # <<>>) =>
        /\ chroma.exists
        /\ DocsOfRecords(chroma.records) =
              (IF last.outcome = "built" THEN last.result ELSE <<>>)
        /\ last.outcome = "built" => chroma.files

\* a build succeeded over a store that held a record from another source
C1_Witness ==
    /\ last.op = "build_knowledge_base"
    /\ last.outcome = "built"
    /\ \E i \in 1..Len(last.before.records) :
          last.before.records[i].source = NewDoc.source
    /\ chroma.records # <<>>

OnlyUnsupported(dir) ==
    /\ dir.isdir
    /\ dir.files # <<>>
    /\ \A i \in 1..Len(dir.files) :
          \A sfx \in TextSuffixes \cup {PdfSuffix} :
              \/ Len(dir.files[i].name) < Len(sfx)
              \/ Drop(dir.files[i].name, Len(dir.files[i].name) - Len(sfx)) # sfx

\* C2: over a source directory that holds only files with unsupported
\* extensions a build reports that it found no documents and leaves the
\* persisted store as it was: no directory is created, no record written.
C2_UnsupportedOnlyBuildsNothing ==
    (IsBuild /\ OnlyUnsupported(dataDir)) =>
        /\ last.outcome = "no_documents"
        /\ chroma = last.before

\* such a build ran, over a directory holding an upper-case .TXT file
C2_Witness ==
    /\ last.op = "build_knowledge_base"
    /\ OnlyUnsupported(dataDir)
    /\ \E i \in 1..Len(dataDir.files) : dataDir.files[i] = FileUpper
    /\ last.outcome = "no_documents"

\* the source directory is missing or holds nothing at all
EmptySource(dir) == ~dir.exists \/ (dir.isdir /\ dir.files = <<>> /\ ~dir.subdirs)

\* C3: a build over an empty or missing source directory, made by a call of
\* build_knowledge_base() or by running the script, reports that it found no
\* documents and leaves the persisted store exactly as it was before: no
\* store is deleted, modified or created.
C3_EmptySourceIsNoOp ==
    (IsBuild /\ EmptySource(dataDir)) =>
        /\ last.outcome = "no_documents"
        /\ chroma = last.before

\* what does hold: the function build_knowledge_base(), called on its own
\* over such a directory, returns at line 32 and leaves the store as it was
FunctionOverEmptySourceIsNoOp ==
    (last.op = "build_knowledge_base" /\ EmptySource(dataDir)) =>
        /\ last.outcome = "no_documents"
        /\ chroma = last.before

\* C4: with the persisted store missing or empty the existence check fails
\* before the agent is built: the command-line process exits with a non-zero
\* status, every run of the page ends at st.stop with the message shown (or
\* earlier still, at a stop request of the user), and neither ever constructs
\* an agent or takes a question.
C4_NoAgentWithoutKnowledgeBase ==
    /\ (cli.pc \in {"init", "loop"} \/ cli.agent \/ cli.init # "none" \/ cli.queries > 0)
          => (chroma.exists /\ chroma.files)
    /\ (~(chroma.exists /\ chroma.files) /\ cli.pc # "start")
          => (cli.pc = "exited" /\ cli.exit_code # 0 /\ cli.checked = "missing")
    /\ (ui.agent \/ ui.built > 0 \/ ui.init # "none" \/ ui.messages # <<>>
            \/ ui.asked # <<>>)
          => (chroma.exists /\ chroma.files)
    /\ (~(chroma.exists /\ chroma.files) /\ ui.run # "none")
          => /\ ui.run \in {"stopped_kb", "interrupted"}
             /\ ui.hint <=> (ui.run = "stopped_kb")

\* the store directory exists but is empty; both front ends have refused
C4_Witness ==
    /\ chroma.exists
    /\ ~chroma.files
    /\ cli.pc = "exited"
    /\ cli.exit_code = 1
    /\ ui.run = "stopped_kb"
    /\ ui.hint

InitFailed(c) == c.init \in {"ValueError", "Exception"}

\* C5 as stated: every failure of the agent's construction ends the
\* command-line process with a non-zero status and ends the page's run
\* before any question, each with a remediation hint.
C5_InitFailureHaltsWithHint ==
    /\ InitFailed(cli) =>
          (cli.pc = "exited" /\ cli.exit_code # 0 /\ cli.queries = 0 /\ cli.hint)
    /\ cli.pc = "loop" => cli.agent
    /\ InitFailed(ui) =>
          (~ui.agent /\ ui.run \in {"stopped_init", "interrupted"} /\ ui.hint)
    /\ ui.messages # <<>> => ui.agent

\* C5 amended: every failure of the agent's construction ends the
\* command-line process with a non-zero status and ends the page's run
\* before any question. The command line prints the remediation hint exactly
\* when the failure is a ValueError; the page shows it exactly when the run
\* gets as far as st.stop, which is always unless a stop or rerun request of
\* the user ends the run at st.error or st.warning (lines 40-41).
C5_InitFailureHalts ==
    /\ InitFailed(cli) =>
          /\ cli.pc = "exited"
          /\ cli.exit_code # 0
          /\ cli.queries = 0
          /\ ~cli.agent
          /\ cli.hint <=> (cli.init = "ValueError")
    /\ cli.pc = "loop" => cli.agent
    /\ InitFailed(ui) =>
          /\ ~ui.agent
          /\ ui.messages = <<>>
          /\ ui.asked = <<>>
          /\ ui.run \in {"stopped_init", "interrupted"}
          /\ ui.hint <=> (ui.run = "stopped_init")
    /\ ui.run = "stopped_init" => InitFailed(ui)
    /\ ui.messages # <<>> => ui.agent

\* both front ends met a construction failure other than a ValueError
C5_Witness ==
    /\ cli.init = "Exception"
    /\ cli.pc = "exited"
    /\ cli.exit_code = 1
    /\ ~cli.hint
    /\ ui.init = "Exception"
    /\ ui.run = "stopped_init"
    /\ ui.hint

\* C6: no failure of an embedding, search or generation call leaves the
\* handler that made the call: each such call returns.
C6_PerCallFailuresCaught ==
    last.op \in {"create_embedding", "create_embeddings", "similarity_search",
                 "generate_response"}
        => last.outcome = "returned"

ExitLines ==
    { <<"e", "x", "i", "t">>, <<" ", "E", "x", "I", "T", "\n">>,
      <<"q", "u", "i", "t">>, <<"\r", "Q", "U", "i", "t", "\f">> }

QuestionLines ==
    { <<"e", "x", "i", "t", "s">>, <<"e", "x", " ", "i", "t">>,
      <<" ", "d", "n", "a", "?">> }

\* C7: a line that is exit or quit, in any letter case and with surrounding
\* whitespace, ends the loop in that turn without a call of the agent; any
\* other non-empty line is passed to the agent once and the loop goes on.
C7_ExitSentinels ==
    cli.turn.event = "line" =>
        /\ cli.turn.line \in ExitLines =>
              (cli.pc = "exited" /\ cli.exit_code = 0 /\ cli.turn.called = 0)
        /\ cli.turn.line \in QuestionLines =>
              (cli.pc = "loop" /\ cli.turn.called = 1)

\* after one question, a padded upper-case EXIT ended the loop
C7_Witness ==
    /\ cli.turn.event = "line"
    /\ cli.turn.line = <<" ", "E", "x", "I", "T", "\n">>
    /\ cli.queries = 1
    /\ cli.pc = "exited"

IsPrefix(s, t) == Len(s) <= Len(t) /\ Take(t, Len(s)) = s

\* C8: a similarity_search call leaves the persisted store as it was, and
\* only a build removes or rewrites a record the store held.
C8_SearchIsReadOnly ==
    /\ last.op = "similarity_search" => chroma = last.before
    /\ ~IsPrefix(last.before.records, chroma.records) => IsBuild

\* the lengths of the vectors in a list of records
Dimensions(records) == { Len(records[i].embedding) : i \in 1..Len(records) }

\* the vector length of the model of the handler in use
DimensionInUse == IF vdb.model = "nomic-embed-text" THEN EmbeddingDim ELSE EmbeddingDim + 1

\* C10 as stated: after any builds, loads and add_documents calls all the
\* records of the persisted store carry vectors of one length, that of the
\* embedding model of the handler in use.
C10_UniformDimension ==
    /\ Cardinality(Dimensions(chroma.records)) <= 1
    /\ vdb.db = "current" => Dimensions(chroma.records) \subseteq {DimensionInUse}

\* C10 amended: all the records of the persisted store (and all those a
\* handler still holds of a deleted one) carry vectors of one length, that
\* of the model that embedded the first of them. A handler given a model of
\* another length loads such a store all the same; each of its
\* add_documents, initialize_db(documents) and similarity_search calls then
\* raises and leaves the records as they were, so a call that returned was
\* made with a model of the records' length.
C10_UniformAmongRecords ==
    /\ Cardinality(Dimensions(chroma.records)) <= 1
    /\ Cardinality(Dimensions(vdb.orphan)) <= 1
    /\ Dimensions(chroma.records) \cup Dimensions(vdb.orphan)
          \subseteq {EmbeddingDim, EmbeddingDim + 1}
    /\ (last.op \in {"add_documents", "initialize_db"} /\ last.arg # <<>>) =>
          IF last.outcome = "returned"
          THEN Dimensions(View(vdb)) = {DimensionInUse}
          ELSE chroma.records = last.before.records /\ View(vdb) = last.view
    /\ (last.op = "similarity_search" /\ last.outcome = "returned") =>
          Dimensions(last.view) \subseteq {DimensionInUse}

\* a handler given the other model loaded a store built with the configured
\* one, and its add_documents call raised and stored nothing
C10_Witness ==
    /\ last.op = "add_documents"
    /\ last.arg # <<>>
    /\ last.outcome = "raised"
    /\ last.db = "current"
    /\ vdb.model = "other-model"
    /\ Dimensions(chroma.records) = {EmbeddingDim}
    /\ chroma.records = last.before.records

\* C11: over any sequence of runs of the page the agent is constructed
\* successfully at most once, and every question in the transcript was
\* answered by that one construction.
C11_AgentBuiltOnce ==
    /\ ui.built <= 1
    /\ ui.served \subseteq {1}
    /\ ui.asked # <<>> => ui.served = {1}

\* what the cache does guarantee: at most one construction is ever cached,
\* it is the last one made, and it alone answers questions
CachedAgentReused ==
    /\ ui.agent => ui.built >= 1
    /\ ui.served \subseteq {ui.built}
    /\ ui.served # {} => ui.agent
    /\ ui.asked # <<>> => ui.served = {ui.built}
    /\ ui.messages # <<>> => ui.agent

\* the files of the inputs that a loader reads successfully
LoadableFiles == { FileNotes, FilePaper, FileBlank, DummyFile }

\* one document per page of a file, tagged with the file's name
PagesOf(f) == [i \in 1..Len(f.pages) |-> [page_content |-> f.pages[i], source |-> f.name]]

\* the documents of the loadable files of a listing, in walk order
RECURSIVE DocsOfLoadable(_)
DocsOfLoadable(files) ==
    IF files = <<>> THEN <<>>
    ELSE (IF Head(files) \in LoadableFiles THEN PagesOf(Head(files)) ELSE <<>>)
         \o DocsOfLoadable(Tail(files))

\* C12: a directory walk returns exactly the documents of the supported files
\* whose loader succeeds, in walk order: an unsupported file or a file whose
\* loader raises contributes no document and neither stops nor changes the
\* loading of the files around it.
C12_UnsupportedFilesSkipped ==
    last.op = "load_documents_from_directory" =>
        /\ last.outcome = "returned"
        /\ last.result = DocsOfLoadable(dataDir.files)
        /\ \A i \in 1..Len(last.result) :
              last.result[i].source \notin {FileImage.name, FileUpper.name, FileBroken.name}

\* a walk that met a failing PDF and an unsupported file before and between
\* supported files, and returned the three documents of the supported ones
C12_Witness ==
    /\ last.op = "load_documents_from_directory"
    /\ dataDir.files = <<FileBroken, FilePaper, FileUpper, FileNotes>>
    /\ Len(last.result) = 3

\* the number of characters at the end of chunk c that are also the start of
\* chunk d
Overlap(c, d) ==
    LET ks == { k \in 0..Len(c) : k <= Len(d) /\ Drop(c, Len(c) - k) = Take(d, k) }
    IN  CHOOSE k \in ks : \A j \in ks : j <= k

RECURSIVE TotalLength(_)
TotalLength(documents) ==
    IF documents = <<>> THEN 0
    ELSE Len(Head(documents).page_content) + TotalLength(Tail(documents))

HasSeparator(text) == \E i \in 1..Len(text) : IsSpace(text[i])

\* positions i such that chunks i and i + 1 of the result come from one source
AdjacentPairs(result) ==
    { i \in 1..(Len(result) - 1) : result[i].source = result[i + 1].source }

\* C13 as stated: documents longer in total than the chunk size give more
\* than one chunk, adjacent chunks of one source overlap by exactly the
\* configured overlap (or the whole preceding chunk if that is shorter), and
\* no chunk is longer than the chunk size.
C13_ExactOverlap ==
    last.op = "split_documents" =>
        /\ TotalLength(last.arg) > ChunkSize => Len(last.result) > 1
        /\ \A i \in AdjacentPairs(last.result) :
              Overlap(last.result[i].page_content, last.result[i + 1].page_content)
                  = (IF Len(last.result[i].page_content) < ChunkOverlap
                     THEN Len(last.result[i].page_content) ELSE ChunkOverlap)
        /\ \A i \in 1..Len(last.result) : Len(last.result[i].page_content) <= ChunkSize

\* the combined length of the texts, each without its leading and trailing
\* whitespace
RECURSIVE StrippedLength(_)
StrippedLength(documents) ==
    IF documents = <<>> THEN 0
    ELSE Len(strip(Head(documents).page_content)) + StrippedLength(Tail(documents))

\* C13 amended: documents whose texts, each taken without its leading and
\* trailing whitespace, are longer in total than the chunk size give more than
\* one chunk; adjacent chunks of one source overlap by at most the configured
\* overlap, and by exactly that much when the source's text holds no
\* whitespace; no chunk is longer than the chunk size.
C13_BoundedOverlap ==
    last.op = "split_documents" =>
        /\ StrippedLength(last.arg) > ChunkSize => Len(last.result) > 1
        /\ \A i \in AdjacentPairs(last.result) :
              /\ Overlap(last.result[i].page_content, last.result[i + 1].page_content)
                     <= ChunkOverlap
              /\ \A j \in 1..Len(last.arg) :
                    (last.arg[j].source = last.result[i].source
                        /\ ~HasSeparator(last.arg[j].page_content)) =>
                    Overlap(last.result[i].page_content, last.result[i + 1].page_content)
                        = ChunkOverlap
        /\ \A i \in 1..Len(last.result) : Len(last.result[i].page_content) <= ChunkSize

\* one document longer than the chunk size was split at spaces, and a whole
\* piece was carried from one chunk into the next: the two share some text,
\* but less than the configured overlap
C13_Witness ==
    /\ last.op = "split_documents"
    /\ Len(last.arg) = 1
    /\ HasSeparator(last.arg[1].page_content)
    /\ Len(strip(last.arg[1].page_content)) > ChunkSize
    /\ \E i \in AdjacentPairs(last.result) :
          /\ Overlap(last.result[i].page_content, last.result[i + 1].page_content) > 0
          /\ Overlap(last.result[i].page_content, last.result[i + 1].page_content)
                 < ChunkOverlap

\* C14 as stated: add_documents with a non-empty list on a loaded handler
\* keeps every record the handler read and appends the new ones; on a handler
\* whose db is None it leaves the store holding exactly those documents, with
\* the handler loaded; with an empty list it changes neither the handler's db
\* nor the persisted store.
C14_AddDocumentsAdditive ==
    (last.op = "add_documents" /\ last.outcome = "returned") =>
        /\ last.arg = <<>> => (chroma = last.before /\ vdb.db = last.db)
        /\ (last.arg # <<>> /\ last.db # "None") =>
              /\ DocsOfRecords(View(vdb)) = DocsOfRecords(last.view) \o last.arg
              /\ vdb.db = last.db
        /\ (last.arg # <<>> /\ last.db = "None") =>
              /\ vdb.db = "current"
              /\ DocsOfRecords(chroma.records) = last.arg

\* what add_documents does: as stated above, except that on a handler whose
\* db is None the documents are appended to the records already persisted at
\* the path.
AddDocumentsAppends ==
    (last.op = "add_documents" /\ last.outcome = "returned") =>
        /\ last.arg = <<>> => (chroma = last.before /\ vdb.db = last.db)
        /\ (last.arg # <<>> /\ last.db # "None") =>
              /\ DocsOfRecords(View(vdb)) = DocsOfRecords(last.view) \o last.arg
              /\ vdb.db = last.db
        /\ (last.arg # <<>> /\ last.db = "None") =>
              /\ vdb.db = "current"
              /\ DocsOfRecords(chroma.records)
                    = DocsOfRecords(last.before.records) \o last.arg

\* C15: a similarity_search on a handler whose db is None returns the empty
\* list and does not raise; initialize_db() without documents on a missing
\* or empty persist directory returns with db left as None, so the searches
\* that follow it are of that kind.
C15_UninitializedSearchIsEmpty ==
    /\ (last.op = "similarity_search" /\ last.db = "None") =>
          (last.outcome = "returned" /\ last.result = <<>>)
    /\ (last.op = "initialize_db" /\ last.arg = <<>>
            /\ ~(last.before.exists /\ last.before.files)) =>
          (last.outcome = "returned" /\ vdb.db = "None" /\ chroma = last.before)

\* a search answered with nothing by a handler that was never initialized,
\* although the persisted store holds records
C15_Witness ==
    /\ last.op = "similarity_search"
    /\ last.db = "None"
    /\ last.result = <<>>
    /\ chroma.records # <<>>

\* the answers the agent can give to a question
AnswersTo(question) ==
    { <<"A", ":">> \o question,
      <<"An error occurred while generating the response.">>,
      <<"An error occurred while answering the question.">> }

TranscriptAlternates ==
    /\ Len(ui.messages) = 2 * Len(ui.asked)
    /\ \A i \in 1..Len(ui.asked) :
          /\ ui.messages[2 * i - 1] = [role |-> "user", content |-> ui.asked[i]]
          /\ ui.messages[2 * i].role = "assistant"
          /\ ui.messages[2 * i].content \in AnswersTo(ui.asked[i])

\* C16: at every moment the transcript has even length, turn 2i-1 is the
\* i-th submitted question with role user and turn 2i is the agent's answer to
\* it with role assistant; every step leaves the turns already in the
\* transcript in place and unchanged.
C16_TranscriptAlternates ==
    /\ []TranscriptAlternates
    /\ [][IsPrefix(ui.messages, ui'.messages)]_vars

EmptyLines == { <<>>, <<" ", "\t">> }

\* C17: the loop is left only in a turn that read exit or quit or in which a
\* KeyboardInterrupt was raised; a turn in which any other exception was
\* raised, at the prompt or after the question was read, reports it and stays
\* in the loop for a new prompt; a turn that read an empty line stays in the
\* loop without a call of the agent.
C17_LoopEndsOnlyOnExitOrInterrupt ==
    /\ (cli.pc = "exited" /\ cli.turn.event # "none") =>
          \/ cli.turn.event = "line" /\ cli.turn.line \in ExitLines
          \/ cli.turn.event \in {"interrupt", "line_interrupted"}
    /\ cli.turn.event = "input_error" =>
          (cli.pc = "loop" /\ cli.turn.called = 0 /\ cli.turn.printed = <<"error">>)
    /\ cli.turn.event = "line_error" =>
          (cli.pc = "loop" /\ cli.turn.called = 1 /\ cli.turn.printed = <<"error">>)
    /\ (cli.turn.event = "line" /\ cli.turn.line \in EmptyLines) =>
          (cli.pc = "loop" /\ cli.turn.called = 0
              /\ cli.turn.printed = <<"please enter a question">>)

\* the second question of a session ended in an exception and the loop is
\* at the prompt again
C17_Witness ==
    /\ cli.pc = "loop"
    /\ cli.turn.event = "line_error"
    /\ cli.queries = 2

====
